---- MODULE Spec2Model ----
(***************************************************************************)
(* Model of the two card generators scripts/github-cards.mjs and           *)
(* scripts/wakatime-cards.mjs: the paginated repository aggregation, the   *)
(* yearly contribution windows, the derivation of rows, the composite      *)
(* grade and the bar geometry of the renderers.                            *)
(*                                                                         *)
(* JavaScript numbers: integers are integers; a percent, the result of a   *)
(* division, is a fraction [n, d] (d = 0 stands for a non-finite result:   *)
(* NaN when n = 0, an infinity otherwise); the logarithms of computeGrade  *)
(* are fixed-point.  Binary64 rounding of quotients is not modelled.       *)
(***************************************************************************)
EXTENDS Integers, Sequences, FiniteSets, TLC

VARIABLES
  pc,          \* position of the running function
  \* ---- fetchData, repository loop (github-cards.mjs 441-464)
  pages,       \* the source: the pages the API serves, in order
  cursor,      \* let cursor
  starsTotal,  \* let starsTotal
  langMap,     \* const langMap (a Map: entries in insertion order)
  requests,    \* cursors sent so far, in order
  processed,   \* indices of the pages processed so far, in order
  \* ---- fetchContribSince2021 (github-cards.mjs 359-399)
  now,         \* const now = new Date(), in days since 1970-01-01T00:00:00Z
  y,           \* the loop variable y
  windows,     \* the { from, to } variables of the queries sent, in order
  contrib,     \* the running sums commits, prs, issues, reviews
  \* ---- row derivation (github-cards.mjs 466-479, 507-521; wakatime-cards.mjs 63-72)
  wakaList,    \* d.languages / d.editors / d.operating_systems of the payload
  rows,        \* the derived rows (the rows a bar card is rendered from)
  \* ---- computeGrade (github-cards.mjs 89-141)
  signals,     \* the argument { commits, prs, issues, reviews, starsTotal, reposTotal }
  grade,       \* the result { score, pct, letter }
  \* ---- renderBarsCard (github-cards.mjs 285-355), renderSvg (wakatime-cards.mjs 89-192)
  bars,        \* the geometry rendered: canvas height and, per row, y, barW, fillW
  \* ---- the texts and the grid of a card (github-cards.mjs 194-355, wakatime-cards.mjs 89-192)
  cardSpec,    \* the argument of a renderer: title, header strings, rows or items, grade
  doc,         \* what the renderer returns: the texts embedded, the tiles, the ring
  \* ---- main (github-cards.mjs 523-595, wakatime-cards.mjs 194-253)
  fetched,     \* the requests answered so far besides windows and pages
  rendered,    \* the cards rendered so far
  files        \* each output file: "stale" (of an earlier run) or "fresh" (written by this run)

fetchVars == <<pages, cursor, starsTotal, langMap, requests, processed>>
winVars == <<now, y, windows, contrib>>
rowVars == <<wakaList, rows>>
gradeVars == <<signals, grade>>
cardVars == <<cardSpec, doc>>
mainVars == <<fetched, rendered, files>>
vars == <<pc, fetchVars, winVars, rowVars, gradeVars, bars, cardVars, mainVars>>

\* ------------------------------------------------------------------ bounds
MaxPages == 3
MaxYears == 4    \* the clock runs from FROM_YEAR-01-01 to (FROM_YEAR+MaxYears)-01-01
MaxCats == 11    \* the most categories (languages, entries) a source carries
MaxBarRows == 2  \* the most rows of a card whose percents are drawn freely
MaxStrLen == 2   \* the longest text drawn freely over the alphabet of the renderers
MaxItems == 7    \* the most items of a grid card

\* ------------------------------------------------------------ JS helpers
RECURSIVE SumSeq(_)
SumSeq(s) == IF s = <<>> THEN 0 ELSE s[1] + SumSeq(Tail(s))

\* x || 0 on an optional numeric field of an API object
FieldOr0(obj, f) == IF f \in DOMAIN obj THEN obj[f] ELSE 0

\* ---------------------------------------------------- the paged source
Null == <<>>
EndCursorOf(i) == <<"cursor", i>>

\* The page the API serves for a cursor: the first one for null, otherwise the
\* one after the page that handed the cursor out.
PageIndexFor(c) == IF c = Null THEN 1 ELSE c[2] + 1

Edge(name, size) == [size |-> size, node |-> [name |-> name]]
ForkRepo ==
  [isFork |-> TRUE, stargazerCount |-> 100, languages |-> [edges |-> <<Edge("JS", 300)>>]]
PlainRepo ==
  [isFork |-> FALSE, stargazerCount |-> 50, languages |-> [edges |-> <<Edge("JS", 100)>>]]
\* two languages, and an edge whose node carries no name
MultiRepo ==
  [isFork |-> FALSE, stargazerCount |-> 7,
   languages |-> [edges |-> <<Edge("Py", 300), Edge("JS", 100), [size |-> 40, node |-> [id |-> 0]]>>]]
RepoSet == {ForkRepo, PlainRepo, MultiRepo}

PageNodes ==
  {<<>>} \cup {<<r>> : r \in RepoSet} \cup {<<r, s>> : r \in RepoSet, s \in RepoSet}

MakePages(n, ns) ==
  [i \in 1..n |->
     [nodes |-> ns[i],
      pageInfo |-> [hasNextPage |-> i < n, endCursor |-> EndCursorOf(i)]]]

\* ------------------------------------------- fetchData: repository loop
\* langMap.set(name, (langMap.get(name) || 0) + size)
MapHas(m, name) == \E i \in 1..Len(m) : m[i].name = name
MapGet(m, name) ==
  IF MapHas(m, name) THEN (CHOOSE e \in {m[i] : i \in 1..Len(m)} : e.name = name).size ELSE 0
MapSet(m, name, v) ==
  IF MapHas(m, name)
    THEN [i \in 1..Len(m) |-> IF m[i].name = name THEN [name |-> name, size |-> v] ELSE m[i]]
    ELSE Append(m, [name |-> name, size |-> v])

\* for (const e of (r.languages?.edges || [])) { ... }
RepoEdges(r) ==
  IF "languages" \in DOMAIN r /\ "edges" \in DOMAIN r.languages THEN r.languages.edges ELSE <<>>

RECURSIVE AddEdges(_, _)
AddEdges(m, edges) ==
  IF edges = <<>> THEN m
  ELSE LET e == edges[1]
           hasName == "node" \in DOMAIN e /\ "name" \in DOMAIN e.node /\ e.node.name # ""
           size == FieldOr0(e, "size")
       IN  IF ~hasName THEN AddEdges(m, Tail(edges))
           ELSE AddEdges(MapSet(m, e.node.name, MapGet(m, e.node.name) + size), Tail(edges))

\* if (r.isFork) continue;
SkipRepoNever(r) == FALSE
SkipRepo(r) == r.isFork

\* for (const r of nodes) { ... } applied to the accumulator [stars, langs]
RECURSIVE ProcessNodes(_, _)
ProcessNodes(acc, nodes) ==
  IF nodes = <<>> THEN acc
  ELSE LET r == nodes[1]
       IN  IF SkipRepo(r) THEN ProcessNodes(acc, Tail(nodes))
           ELSE ProcessNodes(
                  [stars |-> acc.stars + FieldOr0(r, "stargazerCount"),
                   langs |-> AddEdges(acc.langs, RepoEdges(r))],
                  Tail(nodes))

\* cursor = page.pageInfo.endCursor
NextCursorStale(page) == Null
NextCursor(page) == page.pageInfo.endCursor

\* if (!page.pageInfo.hasNextPage) break;
LoopBreaks(page) == ~page.pageInfo.hasNextPage

FetchIdle ==
  /\ pages = <<>>
  /\ cursor = Null
  /\ starsTotal = 0
  /\ langMap = <<>>
  /\ requests = <<>>
  /\ processed = <<>>

WinIdle ==
  /\ now = 0
  /\ y = 0
  /\ windows = <<>>
  /\ contrib = [commits |-> 0, prs |-> 0, issues |-> 0, reviews |-> 0]

RowIdle ==
  /\ wakaList = <<>>
  /\ rows = <<>>

GradeIdle ==
  /\ signals = [commits |-> 0]
  /\ grade = [score |-> 0, pct |-> 0, letter |-> "D"]

BarsIdle == bars = [height |-> 0, rows |-> <<>>]

CardIdle ==
  /\ cardSpec = [title |-> <<>>]
  /\ doc = [threw |-> FALSE]

MainIdle ==
  /\ fetched = {}
  /\ rendered = {}
  /\ files = [f \in {} |-> "stale"]

InitFetch ==
  /\ CardIdle
  /\ MainIdle
  /\ pc = "repos"
  /\ WinIdle
  /\ RowIdle
  /\ GradeIdle
  /\ BarsIdle
  /\ \E n \in 1..MaxPages : \E ns \in [1..n -> PageNodes] : pages = MakePages(n, ns)
  /\ cursor = Null
  /\ starsTotal = 0
  /\ langMap = <<>>
  /\ requests = <<>>
  /\ processed = <<>>

\* const data = await ghGraphQL(qRepos, { login: USERNAME, cursor }): the request goes out
RepoRequest ==
  /\ pc = "repos"
  /\ requests' = Append(requests, cursor)
  /\ pc' = "reposAwait"
  /\ UNCHANGED <<pages, cursor, starsTotal, langMap, processed, winVars, rowVars, gradeVars, bars, cardVars, mainVars>>

\* the response arrives: the page is folded in, then the loop breaks or moves the cursor
RepoResponse ==
  /\ pc = "reposAwait"
  /\ PageIndexFor(cursor) \in 1..Len(pages)
  /\ LET idx == PageIndexFor(cursor)
         page == pages[idx]
         acc == ProcessNodes([stars |-> starsTotal, langs |-> langMap], page.nodes)
     IN  /\ starsTotal' = acc.stars
         /\ langMap' = acc.langs
         /\ processed' = Append(processed, idx)
         /\ IF LoopBreaks(page)
              THEN pc' = "reposDone" /\ cursor' = cursor
              ELSE pc' = "repos" /\ cursor' = NextCursor(page)
  /\ UNCHANGED <<pages, requests, winVars, rowVars, gradeVars, bars, cardVars, mainVars>>

\* ghGraphQL: !res.ok || json.errors -> process.exit(1)
RepoFail ==
  /\ pc = "reposAwait"
  /\ pc' = "exit1"
  /\ UNCHANGED <<fetchVars, winVars, rowVars, gradeVars, bars, cardVars, mainVars>>

NextFetch == RepoRequest \/ RepoResponse \/ RepoFail

SpecFetch == InitFetch /\ [][NextFetch]_vars

\* ------------------------------------------------ fetchContribSince2021
FROM_YEAR == 2021

\* Instants are whole days since the epoch (Date counts milliseconds).
IsLeap(yr) == (yr % 4 = 0 /\ yr % 100 # 0) \/ yr % 400 = 0
DaysIn(yr) == IF IsLeap(yr) THEN 366 ELSE 365

\* Date.UTC(yr, 0, 1, 0, 0, 0): 365 days a year plus the leap days of 1970..yr-1
LeapsBefore(yr) == ((yr - 1) \div 4) - ((yr - 1) \div 100) + ((yr - 1) \div 400)
DateUTC(yr) == 365 * (yr - 1970) + LeapsBefore(yr) - LeapsBefore(1970)

\* Date.prototype.getUTCFullYear
RECURSIVE YearFrom(_, _)
YearFrom(yr, t) == IF t < DateUTC(yr + 1) THEN yr ELSE YearFrom(yr + 1, t)
UTCFullYear(t) == YearFrom(1970 + (t \div 366), t)

\* Date.prototype.toISOString: the calendar year and the offset within it
ToISO(t) == [year |-> UTCFullYear(t), day |-> t - DateUTC(UTCFullYear(t))]
\* the instant an ISO string denotes (how the API reads from and to)
FromISO(iso) == DateUTC(iso.year) + iso.day

EndYear == UTCFullYear(now)

\* const from = new Date(Date.UTC(y, 0, 1, 0, 0, 0)).toISOString()
WindowFrom(yr) == ToISO(DateUTC(yr))

\* const to = y === endYear ? now.toISOString() : new Date(Date.UTC(y + 1, 0, 1, 0, 0, 0)).toISOString()
WindowToAlwaysNow(yr) == ToISO(now)
WindowTo(yr) == IF yr = EndYear THEN ToISO(now) ELSE ToISO(DateUTC(yr + 1))

\* data.user.contributionsCollection of one window, as the API may answer
ContribAnswers ==
  { [totalCommitContributions |-> 0, totalIssueContributions |-> 0,
     totalPullRequestContributions |-> 0, totalPullRequestReviewContributions |-> 0],
    [totalCommitContributions |-> 5, totalIssueContributions |-> 1,
     totalPullRequestContributions |-> 3, totalPullRequestReviewContributions |-> 2],
    [totalCommitContributions |-> 1] }

NowSet == DateUTC(FROM_YEAR)..DateUTC(FROM_YEAR + MaxYears)

InitWindows ==
  /\ CardIdle
  /\ MainIdle
  /\ pc = "contrib"
  /\ now \in NowSet
  /\ y = FROM_YEAR
  /\ windows = <<>>
  /\ contrib = [commits |-> 0, prs |-> 0, issues |-> 0, reviews |-> 0]
  /\ FetchIdle
  /\ RowIdle
  /\ GradeIdle
  /\ BarsIdle

\* for (...; y <= endYear; ...) { from, to; await ghGraphQL(q, { login, from, to })
ContribRequest ==
  /\ pc = "contrib"
  /\ y <= EndYear
  /\ windows' = Append(windows, [from |-> WindowFrom(y), to |-> WindowTo(y)])
  /\ pc' = "contribAwait"
  /\ UNCHANGED <<now, y, contrib, fetchVars, rowVars, gradeVars, bars, cardVars, mainVars>>

\* the answer arrives: the four sums grow, y++
ContribResponse ==
  /\ pc = "contribAwait"
  /\ \E c \in ContribAnswers :
       contrib' = [commits |-> contrib.commits + FieldOr0(c, "totalCommitContributions"),
                   prs     |-> contrib.prs + FieldOr0(c, "totalPullRequestContributions"),
                   issues  |-> contrib.issues + FieldOr0(c, "totalIssueContributions"),
                   reviews |-> contrib.reviews + FieldOr0(c, "totalPullRequestReviewContributions")]
  /\ y' = y + 1
  /\ pc' = "contrib"
  /\ UNCHANGED <<now, windows, fetchVars, rowVars, gradeVars, bars, cardVars, mainVars>>

\* ghGraphQL: !res.ok || json.errors -> process.exit(1)
ContribFail ==
  /\ pc = "contribAwait"
  /\ pc' = "exit1"
  /\ UNCHANGED <<winVars, fetchVars, rowVars, gradeVars, bars, cardVars, mainVars>>

\* y > endYear: return { commits, prs, issues, reviews }
ContribReturn ==
  /\ pc = "contrib"
  /\ y > EndYear
  /\ pc' = "contribDone"
  /\ UNCHANGED <<winVars, fetchVars, rowVars, gradeVars, bars, cardVars, mainVars>>

NextWindows == ContribRequest \/ ContribResponse \/ ContribFail \/ ContribReturn

SpecWindows == InitWindows /\ [][NextWindows]_vars

\* ------------------------------------------------------- row derivation
\* a / b: a fraction; d = 0 is a non-finite result (0 / 0 is NaN)
Div(a, b) == [n |-> a, d |-> b]
Zero == [n |-> 0, d |-> 1]
IsFinite(x) == x.d # 0
IsZero(x) == x.d # 0 /\ x.n = 0
RatEq(a, b) == a.d # 0 /\ b.d # 0 /\ a.n * b.d = b.n * a.d

\* x || 1
OrOneMissing(x) == x
OrOne(x) == IF x = 0 THEN 1 ELSE x

\* Array.prototype.slice(0, limit)
SliceAll(s, limit) == s
Slice(s, limit) == IF Len(s) <= limit THEN s ELSE SubSeq(s, 1, limit)

\* toLocaleString("en-US"): the groups of three digits
RECURSIVE fmtNumber(_)
fmtNumber(x) == IF x < 1000 THEN <<x>> ELSE Append(fmtNumber(x \div 1000), x % 1000)

\* humanBytes: tenths of the unit for MB and KB (toFixed(1)), whole bytes below
humanBytes(b) ==
  LET mb == 1024 * 1024
      kb == 1024
  IN  IF b >= mb THEN [tenths |-> (20 * (b \div kb) + kb) \div (2 * kb), unit |-> "MB"]
      ELSE IF b >= kb THEN [tenths |-> (20 * b + kb) \div (2 * kb), unit |-> "KB"]
      ELSE [whole |-> b, unit |-> "B"]

\* [...].sort((a, b) => b[1] - a[1]): stable, largest size first
RECURSIVE InsertDesc(_, _)
InsertDesc(sorted, e) ==
  IF sorted = <<>> THEN <<e>>
  ELSE IF sorted[1].size >= e.size THEN <<sorted[1]>> \o InsertDesc(Tail(sorted), e)
  ELSE <<e>> \o sorted
RECURSIVE SortDesc(_)
SortDesc(m) ==
  IF m = <<>> THEN <<>> ELSE InsertDesc(SortDesc(SubSeq(m, 1, Len(m) - 1)), m[Len(m)])

RowLimit == 10

\* const langEntries = [...langMap.entries()].sort(...).slice(0, 10)
LangEntries(m) == Slice(SortDesc(m), RowLimit)

\* const langTotalSize = langEntries.reduce((acc, [, v]) => acc + v, 0) || 1
LangTotalSizeOfAll(entries) == OrOne(SumSeq([i \in 1..Len(langMap) |-> langMap[i].size]))
LangTotalSize(entries) == OrOne(SumSeq([i \in 1..Len(entries) |-> entries[i].size]))

\* const langRows = langEntries.map(([name, size]) => ({ name, valueText, percent }))
LangRows(m) ==
  LET entries == LangEntries(m)
      total == LangTotalSize(entries)
  IN  [i \in 1..Len(entries) |->
         [name |-> entries[i].name,
          valueText |-> humanBytes(entries[i].size),
          percent |-> Div(entries[i].size * 100, total)]]

\* const contribTotal = commits + prs + issues + reviews
ContribTotal(c) == c.commits + c.prs + c.issues + c.reviews

\* makeActivityRows({ commits, prs, issues, reviews, contribTotal })
makeActivityRows(d) ==
  LET total == OrOne(d.contribTotal)
      list == << [name |-> "Commits", value |-> d.commits],
                 [name |-> "Pull Requests", value |-> d.prs],
                 [name |-> "Issues", value |-> d.issues],
                 [name |-> "Reviews", value |-> d.reviews] >>
  IN  [i \in 1..Len(list) |->
         [name |-> list[i].name,
          valueText |-> fmtNumber(list[i].value),
          percent |-> Div(list[i].value * 100, total)]]

\* fmtMinutes(mins)
fmtMinutes(mins) ==
  LET h == mins \div 60
      m == mins % 60
  IN  IF h <= 0 THEN <<m, "m">>
      ELSE IF m = 0 THEN <<h, "h">>
      ELSE <<h, "h", m, "m">>

\* Math.round((x.total_seconds || 0) / 60)
RoundMinutes(secs) == (2 * secs + 60) \div 120

\* Number(x.percent || 0): 0 for a missing, zero or NaN percent
PercentOr0(x) ==
  IF "percent" \notin DOMAIN x \/ x.percent.n = 0 THEN Zero ELSE x.percent

\* toRows(list = [], limit = 10)
toRows(list, limit) ==
  LET kept == Slice(list, limit)
  IN  [i \in 1..Len(kept) |->
         [name |-> kept[i].name,
          time |-> IF "text" \in DOMAIN kept[i] /\ kept[i].text # ""
                     THEN kept[i].text
                     ELSE fmtMinutes(RoundMinutes(FieldOr0(kept[i], "total_seconds"))),
          percent |-> PercentOr0(kept[i]),
          seconds |-> FieldOr0(kept[i], "total_seconds")]]

\* ---- inputs of the derivations
CatNames ==
  << "JavaScript", "Python", "Other", "Go", "Rust", "C", "Java", "Ruby", "Shell", "HTML",
     "CSS", "Swift", "Kotlin", "PHP", "Lua", "Zig" >>
\* sizes a language may sum to: any of three for the first three languages, one
\* of two for the later ones
SizesOf(i) == IF i <= 3 THEN {0, 100, 300} ELSE {0, 300}

\* a language map of n languages, inserted in the order of CatNames
LangMapOf(n, f) == [i \in 1..n |-> [name |-> CatNames[i], size |-> f[i]]]

\* The time-tracking API lists n entries by descending time, each with its share
\* of the whole list's time as percent: a entries of 120 s, b of 30 s, the rest 0.
WakaSeconds(i, a, b) == IF i <= a THEN 120 ELSE IF i <= a + b THEN 30 ELSE 0
WakaListOf(n, a, b, withText) ==
  LET total == 120 * a + 30 * b
      share(i) == IF total = 0 THEN Zero ELSE Div(100 * WakaSeconds(i, a, b), total)
  IN  [i \in 1..n |->
         IF withText
           THEN [name |-> CatNames[i], total_seconds |-> WakaSeconds(i, a, b),
                 percent |-> share(i), text |-> "some time"]
           ELSE [name |-> CatNames[i], total_seconds |-> WakaSeconds(i, a, b),
                 percent |-> share(i)]]

ActivityCounts == {0, 1, 5}

InitRows ==
  /\ CardIdle
  /\ MainIdle
  /\ pages = <<>> /\ cursor = Null /\ starsTotal = 0 /\ requests = <<>> /\ processed = <<>>
  /\ now = 0 /\ y = 0 /\ windows = <<>>
  /\ rows = <<>>
  /\ GradeIdle
  /\ BarsIdle
  /\ \/ /\ pc = "langRows"
        /\ \E n \in 0..MaxCats : \E f \in [1..n -> {0, 100, 300}] :
             /\ \A i \in 1..n : f[i] \in SizesOf(i)
             /\ langMap = LangMapOf(n, f)
        /\ contrib = [commits |-> 0, prs |-> 0, issues |-> 0, reviews |-> 0]
        /\ wakaList = <<>>
     \/ /\ pc = "activityRows"
        /\ contrib \in [commits : ActivityCounts, prs : ActivityCounts,
                         issues : ActivityCounts, reviews : ActivityCounts]
        /\ langMap = <<>>
        /\ wakaList = <<>>
     \/ /\ pc = "toRows"
        /\ \E n \in 0..MaxCats : \E a \in 0..n : \E b \in 0..(n - a) : \E withText \in BOOLEAN :
             wakaList = WakaListOf(n, a, b, withText)
        /\ contrib = [commits |-> 0, prs |-> 0, issues |-> 0, reviews |-> 0]
        /\ langMap = <<>>

\* fetchData, after the loops: langEntries, langTotalSize, langRows
DeriveLangRows ==
  /\ pc = "langRows"
  /\ rows' = LangRows(langMap)
  /\ pc' = "langRowsDone"
  /\ UNCHANGED <<fetchVars, winVars, wakaList, gradeVars, bars, cardVars, mainVars>>

\* main: const activityRows = makeActivityRows(d)
MakeActivityRows ==
  /\ pc = "activityRows"
  /\ rows' = makeActivityRows([commits |-> contrib.commits, prs |-> contrib.prs,
                               issues |-> contrib.issues, reviews |-> contrib.reviews,
                               contribTotal |-> ContribTotal(contrib)])
  /\ pc' = "activityRowsDone"
  /\ UNCHANGED <<fetchVars, winVars, wakaList, gradeVars, bars, cardVars, mainVars>>

\* main: const langRows = toRows(languages, 10) (and editors, operatingSystems)
ToRows ==
  /\ pc = "toRows"
  /\ rows' = toRows(wakaList, RowLimit)
  /\ pc' = "toRowsDone"
  /\ UNCHANGED <<fetchVars, winVars, wakaList, gradeVars, bars, cardVars, mainVars>>

NextRows == DeriveLangRows \/ MakeActivityRows \/ ToRows

SpecRows == InitRows /\ [][NextRows]_vars

\* --------------------------------------------------------- computeGrade
\* Logarithms are computed in fixed point: 12 binary digits after the point,
\* from a mantissa of 14 bits (the ratio of two natural logarithms is the ratio
\* of the two binary ones).  A normalised value is a whole number of 1/NormOne,
\* a weight a whole number of hundredths, the score a whole number of
\* 1/ScoreOne.  On every input drawn below pct equals the binary64 result.
RECURSIVE Pow2(_)
Pow2(k) == IF k = 0 THEN 1 ELSE 2 * Pow2(k - 1)

RECURSIVE FloorLog2(_)
FloorLog2(n) == IF n < 2 THEN 0 ELSE 1 + FloorLog2(n \div 2)

\* the binary digits of log2 of the mantissa m, by repeated squaring
RECURSIVE LogDigits(_, _, _)
LogDigits(m, k, acc) ==
  IF k = 0 THEN acc
  ELSE LET sq == (m * m) \div Pow2(14)
       IN  IF sq >= Pow2(15) THEN LogDigits(sq \div 2, k - 1, 2 * acc + 1)
           ELSE LogDigits(sq, k - 1, 2 * acc)

Log2Fixed(n) ==
  LET e == FloorLog2(n)
      m == IF e <= 14 THEN n * Pow2(14 - e) ELSE n \div Pow2(e - 14)
  IN  e * Pow2(12) + LogDigits(m, 12, 0)

\* const L = (x) => Math.log1p(Math.max(0, Number(x || 0)))
L(x) == Log2Fixed(1 + (IF x < 0 THEN 0 ELSE x))

NormOne == 10000
ScoreOne == 100 * NormOne

\* const norm = (val, target) => b === 0 ? 0 : Math.min(1, a / b)
normUncapped(val, target) ==
  IF L(target) = 0 THEN 0 ELSE (L(val) * NormOne) \div L(target)
norm(val, target) ==
  LET a == L(val)
      b == L(target)
  IN  IF b = 0 THEN 0
      ELSE IF a >= b THEN NormOne ELSE (a * NormOne) \div b

targets == [commits |-> 4000, prs |-> 200, issues |-> 200, reviews |-> 250, stars |-> 300, repos |-> 60]

\* the weights, in hundredths
w == [commits |-> 35, prs |-> 20, issues |-> 10, reviews |-> 10, stars |-> 15, repos |-> 10]

\* the letter of a pct
LetterOfStrict(pct) ==
  IF pct > 85 THEN "S" ELSE IF pct > 70 THEN "A" ELSE IF pct > 55 THEN "B"
  ELSE IF pct > 40 THEN "C" ELSE "D"
LetterOf(pct) ==
  IF pct >= 85 THEN "S"
  ELSE IF pct >= 70 THEN "A"
  ELSE IF pct >= 55 THEN "B"
  ELSE IF pct >= 40 THEN "C"
  ELSE "D"

\* computeGrade({ commits, prs, issues, reviews, starsTotal, reposTotal })
computeGrade(in) ==
  LET score == w.commits * norm(FieldOr0(in, "commits"), targets.commits)
             + w.prs * norm(FieldOr0(in, "prs"), targets.prs)
             + w.issues * norm(FieldOr0(in, "issues"), targets.issues)
             + w.reviews * norm(FieldOr0(in, "reviews"), targets.reviews)
             + w.stars * norm(FieldOr0(in, "starsTotal"), targets.stars)
             + w.repos * norm(FieldOr0(in, "reposTotal"), targets.repos)
      \* Math.round(score * 100)
      pct == (2 * score + NormOne) \div (2 * NormOne)
  IN  [score |-> score, pct |-> pct, letter |-> LetterOf(pct)]

\* the counts drawn: nothing, a little, the target, beyond the target
SignalInputs ==
  { [commits |-> c, prs |-> p, issues |-> i, reviews |-> r, starsTotal |-> s, reposTotal |-> t] :
      c \in {0, 60, 4000, 90000}, p \in {0, 12, 200}, i \in {0, 200, 900},
      r \in {0, 9, 250}, s \in {0, 25, 300}, t \in {0, 7, 60} }
  \cup
  { [commits |-> c, prs |-> p, issues |-> i] : c \in {0, 60, 4000, 90000}, p \in {0, 12, 200}, i \in {0, 200, 900} }

InitGrade ==
  /\ CardIdle
  /\ MainIdle
  /\ pc = "grade"
  /\ signals \in SignalInputs
  /\ grade = [score |-> 0, pct |-> 0, letter |-> "D"]
  /\ FetchIdle
  /\ WinIdle
  /\ RowIdle
  /\ BarsIdle

\* main: const grade = computeGrade({ ... })
ComputeGrade ==
  /\ pc = "grade"
  /\ grade' = computeGrade(signals)
  /\ pc' = "gradeDone"
  /\ UNCHANGED <<fetchVars, winVars, rowVars, signals, bars, cardVars, mainVars>>

NextGrade == ComputeGrade

SpecGrade == InitGrade /\ [][NextGrade]_vars

\* ---------------------------------------- renderBarsCard and renderSvg
\* Math.max(0, Math.min(1, x)) of a fraction
Unclamped(x) == x
Clamp01(x) ==
  IF x.d = 0 THEN (IF x.n > 0 THEN [n |-> 1, d |-> 1] ELSE Zero)
  ELSE IF x.n >= x.d THEN [n |-> 1, d |-> 1]
  ELSE IF x.n <= 0 THEN Zero
  ELSE x

\* Math.round(k * x) of a fraction x with a positive denominator: floor(k x + 1/2)
RoundTimes(k, x) == (2 * k * x.n + x.d) \div (2 * x.d)

\* const pct = Math.max(0, Math.min(1, r.percent / 100)); const fillW = Math.round(barW * pct)
FillW(barW, percent) == RoundTimes(barW, Clamp01([n |-> percent.n, d |-> 100 * percent.d]))

\* renderBarsCard: the canvas height and each row's baseline, bar and filled bar
renderBarsCard(rs) ==
  LET width == 900
      padding == 28
      headerH == 124
      rowH == 34
      barX == 380
      pctColW == 82
      barW == width - barX - padding - pctColW
  IN  [height |-> headerH + Len(rs) * rowH + 30,
       rows |-> [i \in 1..Len(rs) |->
                  [y |-> headerH + (i - 1) * rowH, barX |-> barX, barW |-> barW,
                   fillW |-> FillW(barW, rs[i].percent), pctRight |-> width - padding]]]

\* renderSvg: the same geometry under a lower header
renderSvg(rs) ==
  LET width == 900
      padding == 28
      rowH == 34
      headerH == 112
      barX == 380
      pctColW == 82
      barW == width - barX - padding - pctColW
  IN  [height |-> headerH + Len(rs) * rowH + 30,
       rows |-> [i \in 1..Len(rs) |->
                  [y |-> headerH + (i - 1) * rowH, barX |-> barX, barW |-> barW,
                   fillW |-> FillW(barW, rs[i].percent), pctRight |-> width - padding]]]

\* percents a row may carry, degenerate ones included: -50, -1/3, 0, 1/3,
\* 33.33.., 99.9, 100, 250
Percents ==
  { Div(-50, 1), Div(-1, 3), Zero, Div(1, 3), Div(100, 3), Div(999, 10), Div(100, 1), Div(250, 1) }

\* a row carries its name, its value text (valueText in github-cards.mjs, time
\* in wakatime-cards.mjs) and its percent
PlainRow(q) == [name |-> <<"O", "t", "h", "e", "r">>, valueText |-> <<"1">>, time |-> <<"1", "m">>, percent |-> q]

BarRowLists ==
  UNION { [1..n -> {PlainRow(q) : q \in Percents}] : n \in 0..MaxBarRows }

\* ------------------------------------------------------------- escapeXml
\* A string is a sequence of characters; undefined is a value that is no string.
Undefined == << "undefined" >>

\* str.replace(/ch/g, rep)
RECURSIVE ReplaceAll(_, _, _)
ReplaceAll(s, ch, rep) ==
  IF s = <<>> THEN <<>>
  ELSE (IF Head(s) = ch THEN rep ELSE <<Head(s)>>) \o ReplaceAll(Tail(s), ch, rep)

AmpEntity == <<"&", "a", "m", "p", ";">>
LtEntity == <<"&", "l", "t", ";">>
GtEntity == <<"&", "g", "t", ";">>
QuotEntity == <<"&", "q", "u", "o", "t", ";">>
AposEntity == <<"&", "a", "p", "o", "s", ";">>

\* github-cards.mjs: String(str ?? "").replace(/&/g, "&amp;")...replace(/'/g, "&apos;")
escapeXmlAmpLast(str) ==
  LET s0 == IF str = Undefined THEN <<>> ELSE str
      s1 == ReplaceAll(s0, "<", LtEntity)
      s2 == ReplaceAll(s1, ">", GtEntity)
      s3 == ReplaceAll(s2, "\"", QuotEntity)
      s4 == ReplaceAll(s3, "'", AposEntity)
  IN  ReplaceAll(s4, "&", AmpEntity)
escapeXml(str) ==
  LET s0 == IF str = Undefined THEN <<>> ELSE str
      s1 == ReplaceAll(s0, "&", AmpEntity)
      s2 == ReplaceAll(s1, "<", LtEntity)
      s3 == ReplaceAll(s2, ">", GtEntity)
      s4 == ReplaceAll(s3, "\"", QuotEntity)
  IN  ReplaceAll(s4, "'", AposEntity)

\* wakatime-cards.mjs: String(str).replace(...): String(undefined) is "undefined"
escapeXmlWaka(str) ==
  LET s0 == IF str = Undefined THEN <<"u", "n", "d", "e", "f", "i", "n", "e", "d">> ELSE str
      s1 == ReplaceAll(s0, "&", AmpEntity)
      s2 == ReplaceAll(s1, "<", LtEntity)
      s3 == ReplaceAll(s2, ">", GtEntity)
      s4 == ReplaceAll(s3, "\"", QuotEntity)
  IN  ReplaceAll(s4, "'", AposEntity)

\* `${n}` of a non-negative integer
RECURSIVE Digits(_)
Digits(n) == IF n < 10 THEN <<ToString(n)>> ELSE Digits(n \div 10) \o <<ToString(n % 10)>>

\* ------------------------------------------ the texts of the bar cards
\* renderBarsCard: every text the template embeds
barsCardTexts(c, rs) ==
  [ariaLabel |-> escapeXml(c.title),
   title |-> escapeXml(c.title),
   subtitleLeft |-> escapeXml(c.subtitleLeft),
   totalText |-> escapeXml(c.totalText),
   topText |-> escapeXml(c.topText),
   rows |-> [i \in 1..Len(rs) |->
              [rank |-> <<"#">> \o Digits(i),
               name |-> escapeXml(rs[i].name),
               valueText |-> escapeXml(rs[i].valueText)]]]

\* renderSvg: headerTitle is `${icon} ${title}`; topText || ""
svgTexts(c, rs) ==
  [ariaLabel |-> escapeXmlWaka(c.title),
   headerTitle |-> escapeXmlWaka(c.icon \o <<" ">> \o
                                 (IF c.title = Undefined THEN <<"u", "n", "d", "e", "f", "i", "n", "e", "d">> ELSE c.title)),
   totalText |-> escapeXmlWaka(c.totalText),
   topText |-> escapeXmlWaka(IF c.topText = Undefined \/ c.topText = <<>> THEN <<>> ELSE c.topText),
   rows |-> [i \in 1..Len(rs) |->
              [rank |-> escapeXmlWaka(<<"#">> \o Digits(i)),
               name |-> escapeXmlWaka(rs[i].name),
               time |-> escapeXmlWaka(rs[i].time)]]]

\* ---------------------------------------------------- renderGridStatsCard
themeBars == <<"#0EA5E9", "#22C55E", "#A78BFA", "#F59E0B", "#38BDF8", "#14B8A6", "#EAB308">>
themeMuted == "#94A3B8"

\* Math.ceil(a / b) of a non-negative a
CeilDivFloor(a, b) == a \div b
CeilDiv(a, b) == (a + b - 1) \div b

\* ringSvg: clamped = Math.max(0, Math.min(100, pct)); the label is escaped
ringSvg(cx, cy, r, pct, color, label) ==
  [cx |-> cx, cy |-> cy, r |-> r,
   clamped |-> IF pct > 100 THEN 100 ELSE IF pct < 0 THEN 0 ELSE pct,
   color |-> color, label |-> escapeXml(label)]

\* renderGridStatsCard: reading grade.letter of a missing grade throws a
\* TypeError before anything is returned
renderGridStatsCard(c) ==
  LET width == 900
      padding == 28
      headerH == 124
      cols == 3
      rws == CeilDiv(Len(c.items), cols)
      cardGap == 14
      boxH == 74
      boxW == (width - padding * 2 - cardGap * (cols - 1)) \div cols
      height == headerH + rws * (boxH + cardGap) + 30
      ringCx == width - padding - 46
      ringCy == 58
  IN  IF "grade" \notin DOMAIN c THEN [threw |-> TRUE]
      ELSE
      LET ringColor == IF c.grade.letter = <<"S">> THEN themeBars[2]
                       ELSE IF c.grade.letter = <<"A">> THEN themeBars[1]
                       ELSE IF c.grade.letter = <<"B">> THEN themeBars[3]
                       ELSE IF c.grade.letter = <<"C">> THEN themeBars[4]
                       ELSE themeMuted
      IN  [threw |-> FALSE,
           width |-> width,
           height |-> height,
           texts |-> [ariaLabel |-> escapeXml(c.title),
                      title |-> escapeXml(c.title),
                      subtitleLeft |-> escapeXml(c.subtitleLeft),
                      totalText |-> escapeXml(c.totalText),
                      topText |-> escapeXml(c.topText)],
           ring |-> ringSvg(ringCx, ringCy, 26, c.grade.pct, ringColor, c.grade.letter),
           boxes |-> [i \in 1..Len(c.items) |->
                       LET idx == i - 1
                           rr == idx \div cols
                           cc == idx % cols
                       IN  [x |-> padding + cc * (boxW + cardGap),
                            y |-> headerH + rr * (boxH + cardGap),
                            width |-> boxW,
                            height |-> boxH,
                            accent |-> themeBars[(idx % Len(themeBars)) + 1],
                            label |-> escapeXml(c.items[i].label),
                            value |-> escapeXml(c.items[i].value)]]]

\* ---- inputs of the renderers
Alphabet == {"&", "<", ">", "\"", "'", "a", ";"}

SampleTexts ==
  { <<"<", "s", "c", "r", "i", "p", "t", ">", "&", "\"", "'">>,
    <<"&", "a", "m", "p", ";">>,
    <<"&", "l", "t", ";", "b", ">">>,
    Undefined }

Texts == UNION { [1..k -> Alphabet] : k \in 0..MaxStrLen } \cup SampleTexts

PlainCard ==
  [icon |-> <<"*">>, title |-> <<"T">>, subtitleLeft |-> <<"U">>,
   totalText |-> <<"T", "o", "t", "a", "l">>, topText |-> <<"T", "o", "p">>, items |-> <<>>]

PlainItem == [label |-> <<"S", "t", "a", "r", "s">>, value |-> <<"7">>]

HeaderFields == {"title", "subtitleLeft", "totalText", "topText"}

RowFields == {"name", "valueText", "time"}

Letters == { <<"S">>, <<"A">>, <<"B">>, <<"C">>, <<"D">> }

GradePcts == {-5, 0, 73, 100, 140}

WithGrade(c, pct, letter) ==
  [f \in DOMAIN c \cup {"grade"} |-> IF f = "grade" THEN [score |-> pct, pct |-> pct, letter |-> letter] ELSE c[f]]

NoDoc == [threw |-> FALSE]

\* rows of every percent under plain texts
InitBars ==
  /\ MainIdle
  /\ pc \in {"renderBarsCard", "renderSvg"}
  /\ rows \in BarRowLists
  /\ cardSpec = PlainCard
  /\ doc = NoDoc
  /\ wakaList = <<>>
  /\ bars = [height |-> 0, rows |-> <<>>]
  /\ FetchIdle
  /\ WinIdle
  /\ GradeIdle

\* one text of a bar card drawn from Texts, the others plain
InitBarTexts ==
  /\ MainIdle
  /\ pc \in {"renderBarsCard", "renderSvg"}
  /\ \E v \in Texts :
       \/ /\ \E f \in HeaderFields : cardSpec = [PlainCard EXCEPT ![f] = v]
          /\ rows = << PlainRow(Zero) >>
       \/ /\ cardSpec = PlainCard
          /\ \E f \in RowFields : rows = << PlainRow(Zero), [PlainRow(Zero) EXCEPT ![f] = v] >>
  /\ doc = NoDoc
  /\ wakaList = <<>>
  /\ bars = [height |-> 0, rows |-> <<>>]
  /\ FetchIdle
  /\ WinIdle
  /\ GradeIdle

\* a grid card: any number of plain items with any grade or none, or one text
\* drawn from Texts
InitGrid ==
  /\ MainIdle
  /\ pc = "renderGridStatsCard"
  /\ \/ \E n \in 0..MaxItems :
          LET c == [PlainCard EXCEPT !.items = [i \in 1..n |-> PlainItem]]
          IN  \/ cardSpec = c
              \/ \E p \in GradePcts, l \in Letters : cardSpec = WithGrade(c, p, l)
     \/ \E v \in Texts :
          LET c == [PlainCard EXCEPT !.items = << PlainItem >>]
          IN  \/ \E f \in HeaderFields : cardSpec = WithGrade([c EXCEPT ![f] = v], 73, <<"A">>)
              \/ \E f \in {"label", "value"} :
                   cardSpec = WithGrade([c EXCEPT !.items = << PlainItem, [PlainItem EXCEPT ![f] = v] >>], 73, <<"A">>)
              \/ cardSpec = WithGrade(c, 73, v)
  /\ doc = NoDoc
  /\ rows = <<>>
  /\ wakaList = <<>>
  /\ BarsIdle
  /\ FetchIdle
  /\ WinIdle
  /\ GradeIdle

\* main (github-cards.mjs): renderBarsCard({ title, subtitleLeft, totalText, topText, rows })
RenderBarsCard ==
  /\ pc = "renderBarsCard"
  /\ bars' = renderBarsCard(rows)
  /\ doc' = [threw |-> FALSE, texts |-> barsCardTexts(cardSpec, rows)]
  /\ pc' = "renderBarsCardDone"
  /\ UNCHANGED <<fetchVars, winVars, rowVars, gradeVars, cardSpec, mainVars>>

\* main (wakatime-cards.mjs): renderSvg({ icon, title, totalText, topText, rows })
RenderSvg ==
  /\ pc = "renderSvg"
  /\ bars' = renderSvg(rows)
  /\ doc' = [threw |-> FALSE, texts |-> svgTexts(cardSpec, rows)]
  /\ pc' = "renderSvgDone"
  /\ UNCHANGED <<fetchVars, winVars, rowVars, gradeVars, cardSpec, mainVars>>

\* main (github-cards.mjs): renderGridStatsCard({ ..., items, grade })
RenderGridStatsCard ==
  /\ pc = "renderGridStatsCard"
  /\ doc' = renderGridStatsCard(cardSpec)
  /\ pc' = "renderGridStatsCardDone"
  /\ UNCHANGED <<fetchVars, winVars, rowVars, gradeVars, bars, cardSpec, mainVars>>

NextBars == RenderBarsCard \/ RenderSvg

SpecBars == InitBars /\ [][NextBars]_vars

InitCards == InitBars \/ InitBarTexts \/ InitGrid

NextCards == RenderBarsCard \/ RenderSvg \/ RenderGridStatsCard

SpecCards == InitCards /\ [][NextCards]_vars

\* ------------------------------------------------------------------ main
\* The run of each script from its first request to its exit.  The cards are
\* values local to main: `rendered` records which of them exist, `files` which
\* output files this run has written.
GhFiles == {"github-stats.svg", "github-activity.svg", "github-langs.svg"}
WakaFiles == {"wakatime-langs.svg", "wakatime-editors.svg", "wakatime-os.svg"}

\* the clock fetchContribSince2021 reads: within the first, at the start of
\* the second and within the third year
MainNows == {DateUTC(FROM_YEAR) + 40, DateUTC(FROM_YEAR + 1), DateUTC(FROM_YEAR + 2) + 200}

\* what the time-tracking API answers with status 200: a body with or without data
WakaPayloads == { [data |-> [languages |-> <<>>]], [error |-> "x"] }

\* const d = payload?.data; if (!d) { ...; process.exit(1) }
EmptyDataNever(payload) == FALSE
EmptyData(payload) == "data" \notin DOMAIN payload

InitMain ==
  /\ CardIdle
  /\ WinIdle
  /\ RowIdle
  /\ GradeIdle
  /\ BarsIdle
  /\ cursor = Null
  /\ starsTotal = 0
  /\ langMap = <<>>
  /\ requests = <<>>
  /\ processed = <<>>
  /\ fetched = {}
  /\ rendered = {}
  /\ \/ /\ pc = "user"
        /\ \E n \in 1..MaxPages : pages = MakePages(n, [i \in 1..n |-> <<PlainRepo>>])
        /\ files = [f \in GhFiles |-> "stale"]
     \/ /\ pc = "waka"
        /\ pages = <<>>
        /\ files = [f \in WakaFiles |-> "stale"]

\* fetchData: const userData = await ghGraphQL(qUser, { login: USERNAME })
UserRequest ==
  /\ pc = "user"
  /\ pc' = "userAwait"
  /\ UNCHANGED <<fetchVars, winVars, rowVars, gradeVars, bars, cardVars, mainVars>>

\* the answer arrives; fetchContribSince2021 reads the clock and starts at FROM_YEAR
UserResponse ==
  /\ pc = "userAwait"
  /\ fetched' = fetched \cup {[query |-> "user"]}
  /\ now' \in MainNows
  /\ y' = FROM_YEAR
  /\ windows' = <<>>
  /\ contrib' = [commits |-> 0, prs |-> 0, issues |-> 0, reviews |-> 0]
  /\ pc' = "contrib"
  /\ UNCHANGED <<fetchVars, rowVars, gradeVars, bars, cardVars, rendered, files>>

\* ghGraphQL: !res.ok || json.errors -> process.exit(1)
UserFail ==
  /\ pc = "userAwait"
  /\ pc' = "exit1"
  /\ UNCHANGED <<fetchVars, winVars, rowVars, gradeVars, bars, cardVars, mainVars>>

\* fetchData after fetchContribSince2021 returned: let cursor = null; let starsTotal = 0; ...
ReposStart ==
  /\ pc = "contribDone"
  /\ fetched' = fetched \cup {[query |-> "contrib"]}
  /\ cursor' = Null
  /\ starsTotal' = 0
  /\ langMap' = <<>>
  /\ pc' = "repos"
  /\ UNCHANGED <<pages, requests, processed, winVars, rowVars, gradeVars, bars, cardVars, rendered, files>>

\* fetchData returns; main computes the grade and renders the three cards
RenderCards ==
  /\ pc = "reposDone"
  /\ fetched' = fetched \cup {[query |-> "repos"]}
  /\ rendered' = GhFiles
  /\ pc' = "rendered"
  /\ UNCHANGED <<fetchVars, winVars, rowVars, gradeVars, bars, cardVars, files>>

\* fs.mkdirSync(OUT_DIR, { recursive: true }); fs.writeFileSync(OUT_STATS, statsSvg, "utf8")
WriteStats ==
  /\ pc = "rendered"
  /\ files' = [files EXCEPT !["github-stats.svg"] = "fresh"]
  /\ pc' = "wroteStats"
  /\ UNCHANGED <<fetchVars, winVars, rowVars, gradeVars, bars, cardVars, fetched, rendered>>

\* fs.writeFileSync(OUT_ACTIVITY, activitySvg, "utf8")
WriteActivity ==
  /\ pc = "wroteStats"
  /\ files' = [files EXCEPT !["github-activity.svg"] = "fresh"]
  /\ pc' = "wroteActivity"
  /\ UNCHANGED <<fetchVars, winVars, rowVars, gradeVars, bars, cardVars, fetched, rendered>>

\* fs.writeFileSync(OUT_LANGS, langsSvg, "utf8"); main returns
WriteLangs ==
  /\ pc = "wroteActivity"
  /\ files' = [files EXCEPT !["github-langs.svg"] = "fresh"]
  /\ pc' = "exit0"
  /\ UNCHANGED <<fetchVars, winVars, rowVars, gradeVars, bars, cardVars, fetched, rendered>>

\* main (wakatime-cards.mjs): const payload = await fetchAllTimeStats()
WakaRequest ==
  /\ pc = "waka"
  /\ pc' = "wakaAwait"
  /\ UNCHANGED <<fetchVars, winVars, rowVars, gradeVars, bars, cardVars, mainVars>>

\* the answer arrives: without data the run exits, otherwise the three cards are rendered
WakaResponse ==
  /\ pc = "wakaAwait"
  /\ \E payload \in WakaPayloads :
       /\ fetched' = fetched \cup {[query |-> "stats", payload |-> payload]}
       /\ IF EmptyData(payload)
            THEN pc' = "exit1" /\ rendered' = rendered
            ELSE pc' = "wakaRendered" /\ rendered' = WakaFiles
  /\ UNCHANGED <<fetchVars, winVars, rowVars, gradeVars, bars, cardVars, files>>

\* axios.get rejects (network error, timeout, status outside 2xx): main().catch -> process.exit(1)
WakaFail ==
  /\ pc = "wakaAwait"
  /\ pc' = "exit1"
  /\ UNCHANGED <<fetchVars, winVars, rowVars, gradeVars, bars, cardVars, mainVars>>

\* fs.mkdirSync(OUT_DIR, { recursive: true }); fs.writeFileSync(OUT_LANGS, langsSvg, "utf8")
WriteWakaLangs ==
  /\ pc = "wakaRendered"
  /\ files' = [files EXCEPT !["wakatime-langs.svg"] = "fresh"]
  /\ pc' = "wroteWakaLangs"
  /\ UNCHANGED <<fetchVars, winVars, rowVars, gradeVars, bars, cardVars, fetched, rendered>>

\* fs.writeFileSync(OUT_EDITORS, editorsSvg, "utf8")
WriteEditors ==
  /\ pc = "wroteWakaLangs"
  /\ files' = [files EXCEPT !["wakatime-editors.svg"] = "fresh"]
  /\ pc' = "wroteEditors"
  /\ UNCHANGED <<fetchVars, winVars, rowVars, gradeVars, bars, cardVars, fetched, rendered>>

\* fs.writeFileSync(OUT_OS, osSvg, "utf8"); main returns
WriteOS ==
  /\ pc = "wroteEditors"
  /\ files' = [files EXCEPT !["wakatime-os.svg"] = "fresh"]
  /\ pc' = "exit0"
  /\ UNCHANGED <<fetchVars, winVars, rowVars, gradeVars, bars, cardVars, fetched, rendered>>

\* mkdirSync or writeFileSync throws: main().catch -> process.exit(1)
WriteFail ==
  /\ pc \in {"rendered", "wroteStats", "wroteActivity", "wakaRendered", "wroteWakaLangs", "wroteEditors"}
  /\ pc' = "exit1"
  /\ UNCHANGED <<fetchVars, winVars, rowVars, gradeVars, bars, cardVars, mainVars>>

NextMain ==
  \/ UserRequest \/ UserResponse \/ UserFail
  \/ ContribRequest \/ ContribResponse \/ ContribFail \/ ContribReturn
  \/ ReposStart
  \/ RepoRequest \/ RepoResponse \/ RepoFail
  \/ RenderCards
  \/ WriteStats \/ WriteActivity \/ WriteLangs
  \/ WakaRequest \/ WakaResponse \/ WakaFail
  \/ WriteWakaLangs \/ WriteEditors \/ WriteOS
  \/ WriteFail

SpecMain == InitMain /\ [][NextMain]_vars

\* ---------------------------------------------------------------- C1
C1_LastPage == pages[processed[Len(processed)]]

\* C1: the first request carries a null cursor and each later one the endCursor
\* of the page just received; the pages received are processed once each, in
\* order; the loop is left exactly when a page reports hasNextPage = false, and
\* then every page has been processed; the loop ends for every number of pages:
\* each iteration processes one more of the finitely many pages and, until the
\* loop is left or a request fails, the source has a page for the cursor asked.
C1_Pagination ==
  /\ \A k \in 1..Len(requests) :
       requests[k] = IF k = 1 THEN Null ELSE pages[processed[k - 1]].pageInfo.endCursor
  /\ processed = [k \in 1..Len(processed) |-> k]
  /\ Len(processed) <= Len(pages)
  /\ Len(requests) = Len(processed) + (IF pc \in {"reposAwait", "exit1"} THEN 1 ELSE 0)
  /\ pc = "reposDone" => /\ ~C1_LastPage.pageInfo.hasNextPage
                         /\ Len(processed) = Len(pages)
  /\ (pc = "repos" /\ processed # <<>>) => C1_LastPage.pageInfo.hasNextPage
  /\ pc = "reposAwait" => PageIndexFor(cursor) \in 1..Len(pages)

C1_Witness == pc = "reposDone" /\ Len(pages) = MaxPages /\ Len(processed) = MaxPages

\* ---------------------------------------------------------------- C2
\* positions <<page, node>> of the repositories that are not forks
C2_NonForks ==
  {pos \in UNION {{<<p, i>> : i \in 1..Len(pages[p].nodes)} : p \in 1..Len(pages)} :
     ~pages[pos[1]].nodes[pos[2]].isFork}
C2_Repo(pos) == pages[pos[1]].nodes[pos[2]]

\* <<page, node, edge>> of every named language edge of a non-fork
C2_Edges ==
  UNION {{<<pos[1], pos[2], j>> : j \in 1..Len(C2_Repo(pos).languages.edges)} : pos \in C2_NonForks}
C2_Edge(t) == pages[t[1]].nodes[t[2]].languages.edges[t[3]]
C2_Named(t) == "name" \in DOMAIN C2_Edge(t).node
C2_Names == {C2_Edge(t).node.name : t \in {u \in C2_Edges : C2_Named(u)}}

RECURSIVE C2_StarSum(_)
C2_StarSum(S) ==
  IF S = {} THEN 0
  ELSE LET pos == CHOOSE x \in S : TRUE
       IN  C2_Repo(pos).stargazerCount + C2_StarSum(S \ {pos})

RECURSIVE C2_SizeSum(_)
C2_SizeSum(S) ==
  IF S = {} THEN 0
  ELSE LET t == CHOOSE x \in S : TRUE
       IN  C2_Edge(t).size + C2_SizeSum(S \ {t})

\* C2: once all pages are iterated, starsTotal is the sum of stargazerCount over
\* the non-fork repositories of all pages and the language map holds, per
\* language name, the sum of its sizes over those repositories; forks add nothing.
C2_Aggregates ==
  pc = "reposDone" =>
    /\ starsTotal = C2_StarSum(C2_NonForks)
    /\ {langMap[i].name : i \in 1..Len(langMap)} = C2_Names
    /\ \A i, j \in 1..Len(langMap) : langMap[i].name = langMap[j].name => i = j
    /\ \A nm \in C2_Names :
         MapGet(langMap, nm) =
           C2_SizeSum({t \in C2_Edges : C2_Named(t) /\ C2_Edge(t).node.name = nm})

\* scenario B: page 1 = one fork with 100 stars, page 2 = one non-fork with 50
C2_Witness ==
  /\ pc = "reposDone"
  /\ Len(pages) = 2
  /\ pages[1].nodes = <<ForkRepo>>
  /\ pages[2].nodes = <<PlainRepo>>
  /\ starsTotal = 50

\* ---------------------------------------------------------------- C3
C3_Start(k) == FromISO(windows[k].from)
C3_End(k) == FromISO(windows[k].to)

\* C3: the windows queried are consecutive and do not overlap, each spans at
\* most one year, the first starts at FROM_YEAR-01-01T00:00:00Z, each starts
\* where the one before ends, and once all are queried the last ends at now.
C3_Windows ==
  /\ \A k \in 1..Len(windows) :
       /\ C3_Start(k) <= C3_End(k)
       /\ C3_End(k) - C3_Start(k) <= DaysIn(windows[k].from.year)
       /\ k = 1 => windows[k].from = [year |-> FROM_YEAR, day |-> 0]
       /\ k > 1 => windows[k].from = windows[k - 1].to
       /\ C3_End(k) <= now
  /\ pc = "contribDone" =>
       /\ windows # <<>>
       /\ windows[Len(windows)].to = ToISO(now)
       /\ C3_End(Len(windows)) = now

\* four windows: three whole years, then the leap year 2024 cut short at now
C3_Witness ==
  /\ pc = "contribDone"
  /\ Len(windows) = 4
  /\ C3_End(3) - C3_Start(3) = 365
  /\ windows[4].from = [year |-> 2024, day |-> 0]
  /\ windows[4].to = [year |-> 2024, day |-> 59]

\* ---------------------------------------------------------------- C4
RowsDone == pc \in {"langRowsDone", "activityRowsDone", "toRowsDone"}

\* the weight a row was derived from
RowWeight(r) ==
  IF pc = "langRowsDone" THEN MapGet(langMap, r.name)
  ELSE IF pc = "toRowsDone" THEN r.seconds
  ELSE IF r.name = "Commits" THEN contrib.commits
  ELSE IF r.name = "Pull Requests" THEN contrib.prs
  ELSE IF r.name = "Issues" THEN contrib.issues
  ELSE contrib.reviews

\* C4 (as claimed): every derived row list (language rows, activity rows,
\* time-tracking rows) is ordered by non-increasing weight.
C4_RowsSortedByWeight ==
  RowsDone => \A i \in 1..(Len(rows) - 1) : RowWeight(rows[i]) >= RowWeight(rows[i + 1])

\* ---------------------------------------------------------------- C5
RECURSIVE C5_WeightSum(_)
C5_WeightSum(S) ==
  IF S = {} THEN 0
  ELSE LET i == CHOOSE x \in S : TRUE IN RowWeight(rows[i]) + C5_WeightSum(S \ {i})

\* total weight of the rows kept, and of every category of the source
C5_KeptTotal == C5_WeightSum(1..Len(rows))
C5_FullLangTotal == SumSeq([i \in 1..Len(langMap) |-> langMap[i].size])

\* percent = 100 * weight / total (0 when total is 0)
C5_IsShare(r, total) ==
  IF total = 0 THEN IsZero(r.percent) ELSE RatEq(r.percent, Div(100 * RowWeight(r), total))

\* C5 (as claimed): a time-tracking row's percent is its share of the total of the
\* rows kept, a repository language row's percent its share of the total size of
\* all languages.
C5_AsClaimed ==
  /\ pc = "toRowsDone" => \A i \in 1..Len(rows) : C5_IsShare(rows[i], C5_KeptTotal)
  /\ pc = "langRowsDone" => \A i \in 1..Len(rows) : C5_IsShare(rows[i], C5_FullLangTotal)

\* C5 (amended): a repository language row's percent is its share of the total
\* size of the languages kept (at most 10), and a time-tracking row's percent is
\* the percent field of its source entry, taken over as it is (0 when missing).
C5_Percent ==
  /\ pc = "langRowsDone" => \A i \in 1..Len(rows) : C5_IsShare(rows[i], C5_KeptTotal)
  /\ pc = "toRowsDone" =>
       \A i \in 1..Len(rows) :
         IF "percent" \in DOMAIN wakaList[i]
           THEN RatEq(rows[i].percent, wakaList[i].percent)
           ELSE IsZero(rows[i].percent)

\* more than 10 languages, one of those dropped with a size above 0
C5_Witness ==
  /\ pc = "langRowsDone"
  /\ Len(langMap) > RowLimit
  /\ C5_FullLangTotal > C5_KeptTotal
  /\ C5_KeptTotal > 0

\* ---------------------------------------------------------------- C6
\* C6: a derived row list never has more than 10 rows; the language rows are the
\* largest languages (none left out is larger than one kept), and toRows keeps
\* the first 10 entries of its list.
C6_RowLimit ==
  RowsDone =>
    /\ Len(rows) <= 10
    /\ pc = "langRowsDone" =>
         /\ Len(rows) = IF Len(langMap) <= 10 THEN Len(langMap) ELSE 10
         /\ \A i \in 1..Len(langMap) :
              (\A k \in 1..Len(rows) : rows[k].name # langMap[i].name) =>
                \A k \in 1..Len(rows) : RowWeight(rows[k]) >= langMap[i].size
    /\ pc = "toRowsDone" =>
         /\ Len(rows) = IF Len(wakaList) <= 10 THEN Len(wakaList) ELSE 10
         /\ \A k \in 1..Len(rows) : rows[k].name = wakaList[k].name

C6_Witness ==
  /\ pc = "langRowsDone"
  /\ Len(langMap) = 11
  /\ Len(rows) = 10
  /\ \A i \in 1..Len(langMap) : langMap[i].size = IF i = 1 THEN 0 ELSE 300

\* ---------------------------------------------------------------- C7
C7_ZeroTotal ==
  \/ pc = "langRowsDone" /\ \A i \in 1..Len(langMap) : langMap[i].size = 0
  \/ pc = "activityRowsDone" /\ contrib.commits = 0 /\ contrib.prs = 0
                             /\ contrib.issues = 0 /\ contrib.reviews = 0

\* C7: with a total weight of 0 every derived row has percent exactly 0, a
\* finite number and not NaN.
C7_ZeroPercent ==
  C7_ZeroTotal => \A i \in 1..Len(rows) : IsFinite(rows[i].percent) /\ rows[i].percent.n = 0

C7_Witness ==
  /\ pc = "langRowsDone"
  /\ Len(langMap) = 3
  /\ C7_ZeroTotal
  /\ Len(rows) = 3

\* ---------------------------------------------------------------- C8
\* C8: the letter of every grade returned is the step function of its pct: S
\* from 85, A for 70..84, B for 55..69, C for 40..54, D up to 39.
C8_LetterSteps ==
  pc = "gradeDone" =>
    /\ grade.pct >= 85 => grade.letter = "S"
    /\ (70 <= grade.pct /\ grade.pct <= 84) => grade.letter = "A"
    /\ (55 <= grade.pct /\ grade.pct <= 69) => grade.letter = "B"
    /\ (40 <= grade.pct /\ grade.pct <= 54) => grade.letter = "C"
    /\ grade.pct <= 39 => grade.letter = "D"

C8_Witness == pc = "gradeDone" /\ grade.pct = 85 /\ grade.letter = "S"

\* ---------------------------------------------------------------- C9
\* C9: score lies in [0, 1] and pct is a whole number in [0, 100]; each signal's
\* normalised value is capped at 1 however large the count, and the six weights
\* sum to 1.
C9_ScoreRange ==
  pc = "gradeDone" =>
    /\ 0 <= grade.score /\ grade.score <= ScoreOne
    /\ grade.pct \in 0..100
    /\ \A k \in {"commits", "prs", "issues", "reviews"} :
         norm(FieldOr0(signals, k), targets[k]) \in 0..NormOne
    /\ norm(FieldOr0(signals, "starsTotal"), targets.stars) \in 0..NormOne
    /\ norm(FieldOr0(signals, "reposTotal"), targets.repos) \in 0..NormOne
    /\ w.commits + w.prs + w.issues + w.reviews + w.stars + w.repos = 100

\* every signal at or beyond its target, commits and issues far beyond
C9_Witness ==
  /\ pc = "gradeDone"
  /\ signals = [commits |-> 90000, prs |-> 200, issues |-> 900, reviews |-> 250,
                starsTotal |-> 300, reposTotal |-> 60]
  /\ grade.score = ScoreOne
  /\ grade.pct = 100

\* --------------------------------------------------------------- C10
\* C10: in both bar renderers every row's filled bar satisfies
\* 0 <= fillW <= barW with barW = width - barX - padding - pctColW, so it ends
\* before the column kept for the percent text.
C10_FillWithinBar ==
  pc \in {"renderBarsCardDone", "renderSvgDone"} =>
    /\ Len(bars.rows) = Len(rows)
    /\ \A i \in 1..Len(bars.rows) :
         /\ bars.rows[i].barW = 900 - 380 - 28 - 82
         /\ 0 <= bars.rows[i].fillW
         /\ bars.rows[i].fillW <= bars.rows[i].barW
         /\ bars.rows[i].barX + bars.rows[i].fillW <= bars.rows[i].pctRight - 82

\* a row of 250 percent beside a row of -50 percent, in renderSvg
C10_Witness ==
  /\ pc = "renderSvgDone"
  /\ Len(rows) = 2
  /\ rows[1].percent = Div(250, 1)
  /\ rows[2].percent = Div(-50, 1)
  /\ bars.rows[1].fillW = bars.rows[1].barW
  /\ bars.rows[2].fillW = 0

\* --------------------------------------------------------------- C11
\* the entity of one character, and a string with every character replaced
\* by its entity exactly once
C11_Entity(ch) ==
  CASE ch = "&" -> <<"&", "a", "m", "p", ";">>
    [] ch = "<" -> <<"&", "l", "t", ";">>
    [] ch = ">" -> <<"&", "g", "t", ";">>
    [] ch = "\"" -> <<"&", "q", "u", "o", "t", ";">>
    [] ch = "'" -> <<"&", "a", "p", "o", "s", ";">>
    [] OTHER -> <<ch>>

RECURSIVE C11_Entities(_)
C11_Entities(s) == IF s = <<>> THEN <<>> ELSE C11_Entity(Head(s)) \o C11_Entities(Tail(s))

\* the string a caller-supplied value stands for in each script
C11_Str(v) == IF v = Undefined THEN <<>> ELSE v

C11_StrWaka(v) == IF v = Undefined THEN <<"u", "n", "d", "e", "f", "i", "n", "e", "d">> ELSE v

C11_EntityNames ==
  { <<"&", "a", "m", "p", ";">>, <<"&", "l", "t", ";">>, <<"&", "g", "t", ";">>,
    <<"&", "q", "u", "o", "t", ";">>, <<"&", "a", "p", "o", "s", ";">> }

\* no raw <, >, " or ', and every & begins an entity
C11_Clean(t) ==
  \A i \in 1..Len(t) :
    /\ t[i] \notin {"<", ">", "\"", "'"}
    /\ t[i] = "&" => \E e \in C11_EntityNames :
                       /\ i + Len(e) - 1 <= Len(t)
                       /\ SubSeq(t, i, i + Len(e) - 1) = e

C11_Script == <<"<", "s", "c", "r", "i", "p", "t", ">", "&", "\"", "'">>

C11_ScriptEscaped ==
  <<"&", "l", "t", ";", "s", "c", "r", "i", "p", "t", "&", "g", "t", ";",
    "&", "a", "m", "p", ";", "&", "q", "u", "o", "t", ";", "&", "a", "p", "o", "s", ";">>

\* every text embedded in the document returned
C11_Embedded ==
  IF pc = "renderBarsCardDone"
    THEN {doc.texts.ariaLabel, doc.texts.title, doc.texts.subtitleLeft, doc.texts.totalText, doc.texts.topText}
         \cup UNION { {doc.texts.rows[i].rank, doc.texts.rows[i].name, doc.texts.rows[i].valueText} :
                      i \in 1..Len(doc.texts.rows) }
  ELSE IF pc = "renderSvgDone"
    THEN {doc.texts.ariaLabel, doc.texts.headerTitle, doc.texts.totalText, doc.texts.topText}
         \cup UNION { {doc.texts.rows[i].rank, doc.texts.rows[i].name, doc.texts.rows[i].time} :
                      i \in 1..Len(doc.texts.rows) }
  ELSE IF pc = "renderGridStatsCardDone" /\ ~doc.threw
    THEN {doc.texts.ariaLabel, doc.texts.title, doc.texts.subtitleLeft, doc.texts.totalText, doc.texts.topText,
          doc.ring.label}
         \cup UNION { {doc.boxes[i].label, doc.boxes[i].value} : i \in 1..Len(doc.boxes) }
  ELSE {}

\* C11: in the document of every renderer each caller-supplied text (title,
\* subtitle, total and top strings, row name, row value text, grid item label
\* and value, grade letter) appears as the input with each of & < > " '
\* replaced by its entity exactly once (no double escaping); every embedded
\* text holds no raw <, >, " or ' and each & in it begins one of &amp; &lt;
\* &gt; &quot; &apos;; and <script>&"' becomes &lt;script&gt;&amp;&quot;&apos;.
C11_Escaped ==
  /\ pc = "renderBarsCardDone" =>
       /\ doc.texts.ariaLabel = C11_Entities(C11_Str(cardSpec.title))
       /\ doc.texts.title = C11_Entities(C11_Str(cardSpec.title))
       /\ doc.texts.subtitleLeft = C11_Entities(C11_Str(cardSpec.subtitleLeft))
       /\ doc.texts.totalText = C11_Entities(C11_Str(cardSpec.totalText))
       /\ doc.texts.topText = C11_Entities(C11_Str(cardSpec.topText))
       /\ Len(doc.texts.rows) = Len(rows)
       /\ \A i \in 1..Len(rows) :
            /\ doc.texts.rows[i].name = C11_Entities(C11_Str(rows[i].name))
            /\ doc.texts.rows[i].valueText = C11_Entities(C11_Str(rows[i].valueText))
  /\ pc = "renderSvgDone" =>
       /\ doc.texts.ariaLabel = C11_Entities(C11_StrWaka(cardSpec.title))
       /\ doc.texts.headerTitle = C11_Entities(cardSpec.icon \o <<" ">> \o C11_StrWaka(cardSpec.title))
       /\ doc.texts.totalText = C11_Entities(C11_StrWaka(cardSpec.totalText))
       /\ doc.texts.topText = C11_Entities(C11_Str(cardSpec.topText))
       /\ Len(doc.texts.rows) = Len(rows)
       /\ \A i \in 1..Len(rows) :
            /\ doc.texts.rows[i].name = C11_Entities(C11_StrWaka(rows[i].name))
            /\ doc.texts.rows[i].time = C11_Entities(C11_StrWaka(rows[i].time))
  /\ (pc = "renderGridStatsCardDone" /\ ~doc.threw) =>
       /\ doc.texts.ariaLabel = C11_Entities(C11_Str(cardSpec.title))
       /\ doc.texts.title = C11_Entities(C11_Str(cardSpec.title))
       /\ doc.texts.subtitleLeft = C11_Entities(C11_Str(cardSpec.subtitleLeft))
       /\ doc.texts.totalText = C11_Entities(C11_Str(cardSpec.totalText))
       /\ doc.texts.topText = C11_Entities(C11_Str(cardSpec.topText))
       /\ doc.ring.label = C11_Entities(C11_Str(cardSpec.grade.letter))
       /\ Len(doc.boxes) = Len(cardSpec.items)
       /\ \A i \in 1..Len(cardSpec.items) :
            /\ doc.boxes[i].label = C11_Entities(C11_Str(cardSpec.items[i].label))
            /\ doc.boxes[i].value = C11_Entities(C11_Str(cardSpec.items[i].value))
  /\ \A t \in C11_Embedded : C11_Clean(t)
  /\ escapeXml(C11_Script) = C11_ScriptEscaped
  /\ escapeXmlWaka(C11_Script) = C11_ScriptEscaped

\* a row named <script>&"' has been rendered with all five characters replaced
C11_Witness ==
  /\ pc = "renderBarsCardDone"
  /\ Len(rows) = 2
  /\ rows[2].name = C11_Script
  /\ doc.texts.rows[2].name = C11_ScriptEscaped

\* --------------------------------------------------------------- C12
\* C12: the grade of a grid card is optional: renderGridStatsCard never
\* fails; called with no grade it returns the document with the header texts
\* and one tile per item and no ring, and called with a grade it returns the
\* document with the ring.
C12_GradeOptional ==
  pc = "renderGridStatsCardDone" =>
    /\ ~doc.threw
    /\ "texts" \in DOMAIN doc
    /\ Len(doc.boxes) = Len(cardSpec.items)
    /\ "ring" \in DOMAIN doc <=> "grade" \in DOMAIN cardSpec

\* --------------------------------------------------------------- C13
\* the least number of rows of three that hold n items
C13_Rows(n) == CHOOSE k \in 0..n : 3 * k >= n /\ (k = 0 \/ 3 * (k - 1) < n)

C13_Disjoint(a, b) ==
  \/ a.x + a.width <= b.x
  \/ b.x + b.width <= a.x
  \/ a.y + a.height <= b.y
  \/ b.y + b.height <= a.y

\* C13: for every number n >= 0 of grid items, item idx sits at row
\* floor(idx / 3) and column idx mod 3 (x = padding + column * (boxW + cardGap),
\* y = headerH + row * (boxH + cardGap)), the canvas height is
\* headerH + ceil(n / 3) * (boxH + cardGap) + 30, every tile lies wholly
\* inside the canvas and no two tiles overlap.
C13_Layout ==
  (pc = "renderGridStatsCardDone" /\ ~doc.threw) =>
    LET n == Len(cardSpec.items)
    IN  /\ Len(doc.boxes) = n
        /\ doc.width = 900
        /\ doc.height = 124 + C13_Rows(n) * (74 + 14) + 30
        /\ \A i \in 1..n :
             /\ doc.boxes[i].width = 272
             /\ doc.boxes[i].height = 74
             /\ doc.boxes[i].x = 28 + ((i - 1) % 3) * (272 + 14)
             /\ doc.boxes[i].y = 124 + ((i - 1) \div 3) * (74 + 14)
             /\ 0 <= doc.boxes[i].x
             /\ doc.boxes[i].x + doc.boxes[i].width <= doc.width
             /\ 0 <= doc.boxes[i].y
             /\ doc.boxes[i].y + doc.boxes[i].height <= doc.height
        /\ \A i \in 1..n : \A j \in 1..n : i # j => C13_Disjoint(doc.boxes[i], doc.boxes[j])

\* seven items have been laid out in three rows, the last row partly filled
C13_Witness ==
  /\ pc = "renderGridStatsCardDone"
  /\ ~doc.threw
  /\ Len(doc.boxes) = 7
  /\ doc.boxes[7].x = 28
  /\ doc.boxes[7].y = 300
  /\ doc.height = 418

\* --------------------------------------------------------------- C14
C14_Github == DOMAIN files = GhFiles

\* the user query, every window up to the current year and every repository
\* page up to the last one have been answered
C14_GithubFetched ==
  /\ [query |-> "user"] \in fetched
  /\ y > EndYear
  /\ Len(windows) = EndYear - FROM_YEAR + 1
  /\ processed # <<>>
  /\ Len(processed) = Len(requests)
  /\ Len(processed) = Len(pages)
  /\ ~pages[processed[Len(processed)]].pageInfo.hasNextPage

\* the time-tracking request has been answered with data
C14_WakaFetched ==
  \E r \in fetched : r.query = "stats" /\ "data" \in DOMAIN r.payload

C14_Ready ==
  /\ IF C14_Github THEN C14_GithubFetched ELSE C14_WakaFetched
  /\ rendered = DOMAIN files

C14_NoneWritten == \A f \in DOMAIN files : files[f] = "stale"

\* what holds of every state of a run
C14_Inv ==
  /\ ~C14_NoneWritten => C14_Ready
  /\ (pc = "exit1" /\ ~C14_Ready) => C14_NoneWritten
  /\ pc = "exit0" => (C14_Ready /\ \A f \in DOMAIN files : files[f] = "fresh")

\* what holds of every step of a run
C14_Step ==
  /\ files' # files => C14_Ready
  /\ (pc \in {"userAwait", "contribAwait", "reposAwait", "wakaAwait"} /\ pc' = "exit1") => C14_NoneWritten'
  /\ pc \in {"exit0", "exit1"} => UNCHANGED vars

\* C14: in each script's run a file is written only after all fetches (the
\* user query, every contribution window and every repository page; or the
\* time-tracking request) have succeeded and all three cards are rendered; a
\* run that a failed fetch ends has exit status 1, does nothing further and
\* has written no file, so its files are not a mix of fresh and stale; status 0
\* means all three files are fresh.
C14_WritesAfterFetches == [](C14_Inv) /\ [][C14_Step]_vars

\* the request for the second repository page failed after the user query,
\* two windows and the first page succeeded: the run has ended, nothing written
C14_Witness ==
  /\ pc = "exit1"
  /\ C14_Github
  /\ [query |-> "user"] \in fetched
  /\ Len(windows) = 2
  /\ Len(processed) = 1
  /\ Len(requests) = 2
  /\ C14_NoneWritten

====
